---- MODULE Spec2Model ----
(***************************************************************************)
(* HR resource query chatbot: the retrieval-and-synthesis pipeline of      *)
(* app/rag_system.py (RAGSystem) and the filter search of app/main.py.     *)
(*                                                                         *)
(* Conventions of the model                                                *)
(*  - Python lists are sequences; roster index i of the code (0-based) is  *)
(*    position i+1 here.                                                   *)
(*  - A similarity or confidence score is an integer number of thousandths *)
(*    (0.1 is 100, 1.0 is 1000).  The embedding vectors of the model all   *)
(*    have magnitude 10, so every cosine is an exact number of thousandths.*)
(*  - A dict key that is missing is the value Absent, a JSON null is Null. *)
(***************************************************************************)
EXTENDS Integers, Sequences, FiniteSets, TLC

VARIABLES
    file,                \* content of employees_file on disk (environment)
    argsortTies,         \* order in which this build's np.argsort leaves equal keys
    phase,               \* "start" | "ready" | "failed"   (RAGSystem.__init__)
    initError,           \* exception that ended __init__, or "none"
    employees,           \* self.employees
    employee_embeddings, \* self.employee_embeddings
    pc,                  \* per caller: position inside process_query
    query,               \* per caller: the query argument
    relevant,            \* per caller: relevant_employees, the ranked (employee, score) pairs
    llmRequest,          \* per caller: the generative call in flight, or NoRequest
    llmOutcome,          \* per caller: how the generative call of this query ended
    llmCalls,            \* per caller: generative calls made for this query
    fallbackCalls,       \* per caller: generate_fallback_response calls for this query
    simCalls,            \* per caller: cosine_similarity computations for this query
    result,              \* per caller: the dict process_query returns, or NoResult
    searchRequest,       \* query parameters of the last /employees/search request
    searchResponse       \* what that request produced

vars == << file, argsortTies, phase, initError, employees, employee_embeddings,
           pc, query, relevant, llmRequest, llmOutcome, llmCalls, fallbackCalls,
           simCalls, result, searchRequest, searchResponse >>

pipelineVars == << pc, query, relevant, llmRequest, llmOutcome, llmCalls,
                   fallbackCalls, simCalls, result >>
storeVars == << file, argsortTies, phase, initError, employees, employee_embeddings >>
searchVars == << searchRequest, searchResponse >>

-----------------------------------------------------------------------------
(* Bounds of the model *)

\* longest roster the employees file holds (one more than top_k, so that the
\* top_k cut of the ranker drops an entry)
MaxRoster == 6
\* longest roster of the filter-search specification
MaxSearchRoster == 3

\* longest roster of the specification with overlapping queries
MaxConcurrentRoster == 3

\* callers of process_query; "c1" alone in the specification that serves one
\* request at a time
Callers == {"c1", "c2"}
OneCaller == {"c1"}

-----------------------------------------------------------------------------
(* Program constants *)

\* top_k: int = 5
TopK == 5
\* similarities[idx] > 0.1, in thousandths
MinScore == 100
\* max_tokens=500
MaxTokens == 500

Absent == "<absent>"
Null == "<null>"
Unknown == "Unknown"
NoMatchText == "I couldn't find any employees matching your criteria. Please try refining your search."
FollowUpText == "Would you like more details about any of these candidates or help with scheduling interviews?"

-----------------------------------------------------------------------------
(* Employee records (models.Employee; the roster holds the raw JSON dicts) *)

Employee(id, name, skills, years, projects, availability, department, location) ==
    [ id |-> id, name |-> name, skills |-> skills, experience_years |-> years,
      projects |-> projects, availability |-> availability, email |-> Absent,
      department |-> department, location |-> location ]

\* The profiles the rosters of the pipeline specification are made of.
Profiles ==
    { Employee(0, "Alice", <<"Python", "ML">>, 5, <<"Health AI">>, "available", "Engineering", Absent),
      Employee(0, "Bob", <<"React">>, 3, <<"Shop UI", "Portal">>, "busy", Absent, "Remote") }

\* The profiles of the filter-search specification: skills, availability and
\* department in several spellings, a department that is missing and one that
\* is null (department: Optional[str] = None).
SearchProfiles ==
    { Employee(0, "Alice", <<"Python", "ML">>, 5, <<"Health AI">>, "available", "Engineering", Absent),
      Employee(0, "Bob", <<"React">>, 3, <<"Shop UI">>, "Busy", Absent, "Remote"),
      Employee(0, "Carol", <<"python">>, 1, <<"Portal">>, "available", Null, Absent) }

RECURSIVE SeqsUpTo(_, _)
\* all sequences over S of length at most n
SeqsUpTo(S, n) ==
    IF n = 0 THEN { <<>> }
    ELSE LET shorter == SeqsUpTo(S, n - 1)
         IN  shorter \cup { Append(s, x) : s \in { t \in shorter : Len(t) = n - 1 }, x \in S }

\* a roster: the profiles in the given order, identifiers 1, 2, ... (unique)
MkRoster(ps) == [ i \in 1..Len(ps) |-> [ ps[i] EXCEPT !.id = i ] ]

Rosters == { MkRoster(ps) : ps \in SeqsUpTo(Profiles, MaxRoster) }
SearchRosters == { MkRoster(ps) : ps \in SeqsUpTo(SearchProfiles, MaxSearchRoster) }

\* What the employees file can hold when the process starts.
Files ==
    { [ kind |-> "absent", employees |-> <<>> ],       \* no such file
      [ kind |-> "unparseable", employees |-> <<>> ],  \* not JSON
      [ kind |-> "no_employees_key", employees |-> <<>> ] }  \* JSON without 'employees'
    \cup { [ kind |-> "ok", employees |-> r ] : r \in Rosters }

-----------------------------------------------------------------------------
(* Text Projector: create_employee_text *)

RECURSIVE Join(_, _)
\* sep.join(strs)
Join(sep, strs) ==
    IF strs = <<>> THEN ""
    ELSE IF Len(strs) = 1 THEN strs[1]
    ELSE strs[1] \o sep \o Join(sep, Tail(strs))

\* str(v) of an optional field inside an f-string
Str(v) == IF v = Null THEN "None" ELSE v

\* employee.get(key, default), v being the stored value of the key
Get(v, default) == IF v = Absent THEN default ELSE v

create_employee_text(employee) ==
    "Name: " \o employee.name
    \o "\nSkills: " \o Join(", ", employee.skills)
    \o "\nExperience: " \o ToString(employee.experience_years) \o " years"
    \o "\nProjects: " \o Join(", ", employee.projects)
    \o "\nDepartment: " \o Str(Get(employee.department, Unknown))
    \o "\nLocation: " \o Str(Get(employee.location, Unknown))
    \o "\nAvailability: " \o employee.availability

-----------------------------------------------------------------------------
(* Embedding Engine: the pretrained sentence-embedding model, a fixed        *)
(* function from text to vector.  The model below is a table over the texts  *)
(* of the model; every vector has magnitude 10.                              *)

Queries == { "Python developer", "React engineer", "Accountant" }

\* the texts of the two pipeline profiles
AliceText ==
    create_employee_text(Employee(0, "Alice", <<"Python", "ML">>, 5, <<"Health AI">>, "available", "Engineering", Absent))
BobText ==
    create_employee_text(Employee(0, "Bob", <<"React">>, 3, <<"Shop UI", "Portal">>, "busy", Absent, "Remote"))

\* embeddings_model.encode of one text
Encode(text) ==
    CASE text = "Python developer" -> << 10, 0, 0, 0 >>
      [] text = "React engineer"   -> << 0, 10, 0, 0 >>
      [] text = "Accountant"       -> << -6, 0, 0, 8 >>
      [] text = AliceText          -> << 6, 8, 0, 0 >>
      [] text = BobText            -> << 1, 9, 3, 3 >>
      [] OTHER                     -> << 0, 6, 8, 0 >>

\* embeddings_model.encode of a list of texts: one row per text, same order
EncodeMany(texts) == [ i \in 1..Len(texts) |-> Encode(texts[i]) ]

\* a variant that loses the last row of the matrix
EmbeddingsDroppingLastRow(emps) ==
    IF emps = <<>> THEN <<>>
    ELSE EncodeMany([ i \in 1..(Len(emps) - 1) |-> create_employee_text(emps[i]) ])
\* np.array([]) when the roster is empty, else one row per employee
create_employee_embeddings(emps) ==
    IF emps = <<>> THEN <<>>
    ELSE EncodeMany([ i \in 1..Len(emps) |-> create_employee_text(emps[i]) ])

-----------------------------------------------------------------------------
(* Similarity: sklearn cosine_similarity(query_embedding, matrix)[0] *)

RECURSIVE DotFrom(_, _, _)
DotFrom(a, b, i) == IF i > Len(a) THEN 0 ELSE a[i] * b[i] + DotFrom(a, b, i + 1)
Dot(a, b) == DotFrom(a, b, 1)

\* integer square root
ISqrt(n) == CHOOSE r \in 0..n : r * r <= n /\ n < (r + 1) * (r + 1)

\* cosine of two vectors in thousandths; a zero vector is normalised by 1
\* and so gives a similarity of 0
Cosine(a, b) ==
    LET na == IF Dot(a, a) = 0 THEN 1 ELSE ISqrt(Dot(a, a))
        nb == IF Dot(b, b) = 0 THEN 1 ELSE ISqrt(Dot(b, b))
    IN  (1000 * Dot(a, b)) \div (na * nb)

cosine_similarity(qvec, matrix) == [ i \in 1..Len(matrix) |-> Cosine(qvec, matrix[i]) ]

-----------------------------------------------------------------------------
(* Similarity Ranker: retrieve_relevant_employees *)

TieOrders == { "index_asc", "index_desc" }

\* np.argsort(similarities): the indices in ascending order of similarity.
\* The default kind is quicksort, which is not stable: the order of equal
\* keys is whatever the build leaves, `ties` here.
argsort(sims, ties) ==
    LET n == Len(sims)
        before(j, i) == \/ sims[j] < sims[i]
                        \/ /\ sims[j] = sims[i]
                           /\ IF ties = "index_asc" THEN j < i ELSE j > i
        place(i) == 1 + Cardinality({ j \in 1..n : before(j, i) })
    IN  [ k \in 1..n |-> CHOOSE i \in 1..n : place(i) = k ]

\* a variant that leaves the ascending order as it is
NotReversed(s) == s
\* s[::-1]
Reversed(s) == [ k \in 1..Len(s) |-> s[Len(s) + 1 - k] ]

\* s[:k]
FirstK(s, k) == SubSeq(s, 1, IF Len(s) < k THEN Len(s) ELSE k)

\* a variant that lets a score of exactly 0.1 through
PassesThresholdAtOrAbove(score) == score >= MinScore
\* similarities[idx] > 0.1
PassesThreshold(score) == score > MinScore

RECURSIVE CollectRelevant(_, _, _)
\* the loop over top_indices: append (employee, score) for every index whose
\* similarity passes the threshold, in the order of top_indices
CollectRelevant(top_indices, emps, sims) ==
    IF top_indices = <<>> THEN <<>>
    ELSE LET idx == Head(top_indices)
             rest == CollectRelevant(Tail(top_indices), emps, sims)
         IN  IF PassesThreshold(sims[idx])
             THEN << << emps[idx], sims[idx] >> >> \o rest
             ELSE rest

\* a variant without the early return
NeverShortCircuits(emps, embs) == FALSE
\* if not self.employees or len(self.employee_embeddings) == 0: return []
ShortCircuits(emps, embs) == emps = <<>> \/ Len(embs) = 0

\* the list retrieve_relevant_employees returns
retrieve_relevant_employees(emps, embs, q, ties) ==
    IF ShortCircuits(emps, embs) THEN <<>>
    ELSE LET similarities == cosine_similarity(Encode(q), embs)
             top_indices == FirstK(Reversed(argsort(similarities, ties)), TopK)
         IN  CollectRelevant(top_indices, emps, similarities)

\* cosine_similarity computations one call of retrieve_relevant_employees makes
SimilarityComputations(emps, embs) == IF ShortCircuits(emps, embs) THEN 0 ELSE 1

-----------------------------------------------------------------------------
(* Response Synthesizer: generate_response, generate_fallback_response *)

\* f"{score:.2f}" of a score in thousandths (nearest hundredth)
Fixed2(score) ==
    LET h == (score + 5) \div 10
    IN  ToString(h \div 100) \o "." \o ToString((h % 100) \div 10) \o ToString(h % 10)

\* a variant that formats the percentage without a decimal
PercentNoDecimal(score) == ToString(score \div 10) \o "%"
\* f"{score:.1%}" of a score in thousandths: the percentage to one decimal
Percent1(score) ==
    IF score < 0 THEN "-" \o ToString((0 - score) \div 10) \o "." \o ToString((0 - score) % 10) \o "%"
    ELSE ToString(score \div 10) \o "." \o ToString(score % 10) \o "%"

RECURSIVE Context(_)
\* the context block of the prompt, one paragraph per candidate in ranked order
Context(rel) ==
    IF rel = <<>> THEN ""
    ELSE LET employee == rel[1][1]
             score == rel[1][2]
         IN  "**" \o employee.name \o "** (" \o ToString(employee.experience_years) \o " years experience)\n"
             \o "Skills: " \o Join(", ", employee.skills) \o "\n"
             \o "Recent Projects: " \o Join(", ", employee.projects) \o "\n"
             \o "Department: " \o Str(Get(employee.department, Unknown)) \o "\n"
             \o "Location: " \o Str(Get(employee.location, Unknown)) \o "\n"
             \o "Availability: " \o employee.availability \o "\n"
             \o "Relevance Score: " \o Fixed2(score) \o "\n\n"
             \o Context(Tail(rel))

Prompt(q, rel) ==
    "User Query: \"" \o q \o "\"\n\n"
    \o "Here are the relevant employees I found:\n\n" \o Context(rel)

\* the arguments of openai.chat.completions.create; no timeout is passed
ChatCompletionRequest(q, rel) ==
    [ model |-> "gpt-3.5-turbo", prompt |-> Prompt(q, rel),
      max_tokens |-> MaxTokens, timeout |-> Absent ]

NoRequest == [ model |-> "", prompt |-> "", max_tokens |-> 0, timeout |-> Absent ]

\* How a generative call can end: generated text, or an exception raised
\* inside the try block (the last one by response.choices[0] on a response
\* without choices).
LLMFailures == { "APIConnectionError", "RateLimitError", "APITimeoutError", "IndexError" }
LLMOutcomes == { "ok" } \cup LLMFailures
GeneratedText == "<text generated by gpt-3.5-turbo>"

\* a variant that catches openai.APIError only
CatchesOnlyAPIError(exc) == exc \in { "APIConnectionError", "RateLimitError", "APITimeoutError" }
\* except Exception: every failure above is a subclass of Exception
ExceptClauseCatches(exc) == exc \in LLMFailures

RECURSIVE FallbackEntries(_, _)
\* the numbered entries of the fallback narrative, i being the number of the
\* first (the bullet character of the source is written "-" here)
FallbackEntries(rel, i) ==
    IF rel = <<>> THEN ""
    ELSE LET employee == rel[1][1]
             score == rel[1][2]
         IN  "**" \o ToString(i) \o ". " \o employee.name \o "** ("
                  \o ToString(employee.experience_years) \o " years experience)\n"
             \o "   - Skills: " \o Join(", ", employee.skills) \o "\n"
             \o "   - Recent Projects: " \o Join(", ", employee.projects) \o "\n"
             \o "   - Availability: " \o employee.availability \o "\n"
             \o "   - Match Score: " \o Percent1(score) \o "\n\n"
             \o FallbackEntries(Tail(rel), i + 1)

generate_fallback_response(q, rel) ==
    IF rel = <<>> THEN NoMatchText
    ELSE "Based on your query '" \o q \o "', I found " \o ToString(Len(rel))
         \o " relevant candidate(s):\n\n"
         \o FallbackEntries(rel, 1)
         \o FollowUpText

-----------------------------------------------------------------------------
(* Query Pipeline: process_query, steps 3 *)

\* a variant that reads the last candidate instead of the first
ConfidenceOfLast(rel) == IF rel = <<>> THEN 0 ELSE rel[Len(rel)][2]
\* confidence_score = relevant_employees[0][1] if relevant_employees else 0.0
Confidence(rel) == IF rel = <<>> THEN 0 ELSE rel[1][2]

\* employees_list = [emp for emp, score in relevant_employees]
EmployeesList(rel) == [ i \in 1..Len(rel) |-> rel[i][1] ]

QueryResult(response, rel) ==
    [ response |-> response, relevant_employees |-> EmployeesList(rel),
      confidence_score |-> Confidence(rel) ]

NoResult == [ response |-> "", relevant_employees |-> <<>>, confidence_score |-> -1 ]

-----------------------------------------------------------------------------
(* Initial state: the process is about to construct RAGSystem() *)

Idle == [ c \in Callers |-> "idle" ]

PipelineIdle ==
    /\ pc = Idle
    /\ query = [ c \in Callers |-> "" ]
    /\ relevant = [ c \in Callers |-> <<>> ]
    /\ llmRequest = [ c \in Callers |-> NoRequest ]
    /\ llmOutcome = [ c \in Callers |-> "none" ]
    /\ llmCalls = [ c \in Callers |-> 0 ]
    /\ fallbackCalls = [ c \in Callers |-> 0 ]
    /\ simCalls = [ c \in Callers |-> 0 ]
    /\ result = [ c \in Callers |-> NoResult ]

NoSearch ==
    [ skills |-> [ given |-> FALSE, value |-> <<>> ],
      min_experience |-> [ given |-> FALSE, value |-> 0 ],
      availability |-> [ given |-> FALSE, value |-> "" ],
      department |-> [ given |-> FALSE, value |-> "" ] ]
NoResponse == [ status |-> "none", employees |-> <<>>, count |-> 0 ]

Init ==
    /\ file \in Files
    /\ argsortTies \in TieOrders
    /\ phase = "start"
    /\ initError = "none"
    /\ employees = <<>>
    /\ employee_embeddings = <<>>
    /\ PipelineIdle
    /\ searchRequest = NoSearch
    /\ searchResponse = NoResponse

-----------------------------------------------------------------------------
(* RAGSystem.__init__ and load_employees *)

\* The outcome of load_employees on a file: the roster, or the exception that
\* leaves it.  Only FileNotFoundError is caught.
load_employees(f) ==
    CASE f.kind = "absent"           -> [ raised |-> "none", employees |-> <<>> ]
      [] f.kind = "unparseable"      -> [ raised |-> "JSONDecodeError", employees |-> <<>> ]
      [] f.kind = "no_employees_key" -> [ raised |-> "KeyError", employees |-> <<>> ]
      [] OTHER                       -> [ raised |-> "none", employees |-> f.employees ]

\* __init__: load the roster, load the embedding model, embed the roster.
\* modelLoads is whether SentenceTransformer('all-MiniLM-L6-v2') loads.
Startup ==
    /\ phase = "start"
    /\ \E modelLoads \in BOOLEAN :
         LET loaded == load_employees(file)
         IN  IF loaded.raised # "none"
             THEN /\ phase' = "failed"
                  /\ initError' = loaded.raised
                  /\ UNCHANGED << employees, employee_embeddings >>
             ELSE IF ~modelLoads
             THEN /\ phase' = "failed"
                  /\ initError' = "ModelLoadError"
                  /\ employees' = loaded.employees
                  /\ UNCHANGED employee_embeddings
             ELSE /\ phase' = "ready"
                  /\ initError' = "none"
                  /\ employees' = loaded.employees
                  /\ employee_embeddings' = create_employee_embeddings(loaded.employees)
    /\ UNCHANGED << file, argsortTies, pipelineVars, searchVars >>

-----------------------------------------------------------------------------
(* process_query, one caller c *)

\* a variant of step 1 that consumes the roster: it drops the last record
\* and the last matrix row after ranking
RetrieveConsumingRoster(c) ==
    /\ phase = "ready"
    /\ pc[c] = "idle"
    /\ \E q \in Queries :
         /\ query' = [ query EXCEPT ![c] = q ]
         /\ relevant' = [ relevant EXCEPT ![c] =
                retrieve_relevant_employees(employees, employee_embeddings, q, argsortTies) ]
    /\ simCalls' = [ simCalls EXCEPT ![c] = SimilarityComputations(employees, employee_embeddings) ]
    /\ pc' = [ pc EXCEPT ![c] = "retrieved" ]
    /\ employees' = SubSeq(employees, 1, Len(employees) - 1)
    /\ employee_embeddings' = SubSeq(employee_embeddings, 1, Len(employee_embeddings) - 1)
    /\ UNCHANGED << file, argsortTies, phase, initError, llmRequest, llmOutcome, llmCalls,
                    fallbackCalls, result, searchVars >>

\* Step 1: relevant_employees = self.retrieve_relevant_employees(query)
Retrieve(c) ==
    /\ phase = "ready"
    /\ pc[c] = "idle"
    /\ \E q \in Queries :
         /\ query' = [ query EXCEPT ![c] = q ]
         /\ relevant' = [ relevant EXCEPT ![c] =
                retrieve_relevant_employees(employees, employee_embeddings, q, argsortTies) ]
    /\ simCalls' = [ simCalls EXCEPT ![c] = SimilarityComputations(employees, employee_embeddings) ]
    /\ pc' = [ pc EXCEPT ![c] = "retrieved" ]
    /\ UNCHANGED << storeVars, llmRequest, llmOutcome, llmCalls, fallbackCalls, result, searchVars >>

\* Step 2 with no candidate: generate_response returns the no-match text at
\* once; step 3 assembles the result.
RespondNoMatch(c) ==
    /\ pc[c] = "retrieved"
    /\ relevant[c] = <<>>
    /\ result' = [ result EXCEPT ![c] = QueryResult(NoMatchText, relevant[c]) ]
    /\ pc' = [ pc EXCEPT ![c] = "done" ]
    /\ UNCHANGED << storeVars, query, relevant, llmRequest, llmOutcome, llmCalls,
                    fallbackCalls, simCalls, searchVars >>

\* a variant of step 2 that sends the generative call whether or not there
\* is a candidate
CallLLMEvenWhenEmpty(c) ==
    /\ pc[c] = "retrieved"
    /\ llmRequest' = [ llmRequest EXCEPT ![c] = ChatCompletionRequest(query[c], relevant[c]) ]
    /\ llmCalls' = [ llmCalls EXCEPT ![c] = @ + 1 ]
    /\ pc' = [ pc EXCEPT ![c] = "calling" ]
    /\ UNCHANGED << storeVars, query, relevant, llmOutcome, fallbackCalls, simCalls,
                    result, searchVars >>

\* Step 2 with candidates: build the prompt and send the generative call.
CallLLM(c) ==
    /\ pc[c] = "retrieved"
    /\ relevant[c] # <<>>
    /\ llmRequest' = [ llmRequest EXCEPT ![c] = ChatCompletionRequest(query[c], relevant[c]) ]
    /\ llmCalls' = [ llmCalls EXCEPT ![c] = @ + 1 ]
    /\ pc' = [ pc EXCEPT ![c] = "calling" ]
    /\ UNCHANGED << storeVars, query, relevant, llmOutcome, fallbackCalls, simCalls,
                    result, searchVars >>

\* a variant that sends the generative call again after a failure, once,
\* before it falls back
LLMReturnsRetrying(c) ==
    /\ pc[c] = "calling"
    /\ \E outcome \in LLMOutcomes :
         /\ llmOutcome' = [ llmOutcome EXCEPT ![c] = outcome ]
         /\ IF outcome = "ok"
            THEN /\ result' = [ result EXCEPT ![c] = QueryResult(GeneratedText, relevant[c]) ]
                 /\ pc' = [ pc EXCEPT ![c] = "done" ]
                 /\ llmRequest' = [ llmRequest EXCEPT ![c] = NoRequest ]
                 /\ UNCHANGED << fallbackCalls, llmCalls >>
            ELSE IF llmCalls[c] < 2
            THEN /\ llmCalls' = [ llmCalls EXCEPT ![c] = @ + 1 ]
                 /\ UNCHANGED << pc, result, fallbackCalls, llmRequest >>
            ELSE /\ result' = [ result EXCEPT ![c] =
                        QueryResult(generate_fallback_response(query[c], relevant[c]), relevant[c]) ]
                 /\ pc' = [ pc EXCEPT ![c] = "done" ]
                 /\ fallbackCalls' = [ fallbackCalls EXCEPT ![c] = @ + 1 ]
                 /\ llmRequest' = [ llmRequest EXCEPT ![c] = NoRequest ]
                 /\ UNCHANGED llmCalls
    /\ UNCHANGED << storeVars, query, relevant, simCalls, searchVars >>

\* The generative call ends: with text, which generate_response returns, or
\* with an exception, which the except clause turns into the fallback
\* narrative; step 3 assembles the result.  An exception the clause does not
\* catch leaves process_query.
LLMReturns(c) ==
    /\ pc[c] = "calling"
    /\ \E outcome \in LLMOutcomes :
         /\ llmOutcome' = [ llmOutcome EXCEPT ![c] = outcome ]
         /\ IF outcome = "ok"
            THEN /\ result' = [ result EXCEPT ![c] = QueryResult(GeneratedText, relevant[c]) ]
                 /\ pc' = [ pc EXCEPT ![c] = "done" ]
                 /\ UNCHANGED fallbackCalls
            ELSE IF ExceptClauseCatches(outcome)
            THEN /\ result' = [ result EXCEPT ![c] =
                        QueryResult(generate_fallback_response(query[c], relevant[c]), relevant[c]) ]
                 /\ pc' = [ pc EXCEPT ![c] = "done" ]
                 /\ fallbackCalls' = [ fallbackCalls EXCEPT ![c] = @ + 1 ]
            ELSE /\ pc' = [ pc EXCEPT ![c] = "raised" ]
                 /\ UNCHANGED << result, fallbackCalls >>
    /\ llmRequest' = [ llmRequest EXCEPT ![c] = NoRequest ]
    /\ UNCHANGED << storeVars, query, relevant, llmCalls, simCalls, searchVars >>

\* process_query has returned (or raised) and the caller is free for its next
\* query: the locals of the call are gone.
Return(c) ==
    /\ pc[c] \in { "done", "raised" }
    /\ pc' = [ pc EXCEPT ![c] = "idle" ]
    /\ query' = [ query EXCEPT ![c] = "" ]
    /\ relevant' = [ relevant EXCEPT ![c] = <<>> ]
    /\ llmOutcome' = [ llmOutcome EXCEPT ![c] = "none" ]
    /\ llmCalls' = [ llmCalls EXCEPT ![c] = 0 ]
    /\ fallbackCalls' = [ fallbackCalls EXCEPT ![c] = 0 ]
    /\ simCalls' = [ simCalls EXCEPT ![c] = 0 ]
    /\ result' = [ result EXCEPT ![c] = NoResult ]
    /\ UNCHANGED << storeVars, llmRequest, searchVars >>

\* One request at a time: chat_query is an async handler that calls the
\* blocking process_query, so the event loop serves the next request only
\* after the previous one has returned.
Next ==
    \/ Startup
    \/ \E c \in OneCaller : Retrieve(c)
    \/ \E c \in OneCaller : RespondNoMatch(c)
    \/ \E c \in OneCaller : CallLLM(c)
    \/ \E c \in OneCaller : LLMReturns(c)
    \/ \E c \in OneCaller : Return(c)

Spec == Init /\ [][Next]_vars

\* Overlapping queries (a deployment with a worker pool): the steps of the
\* callers interleave freely.
ConcurrentInit ==
    /\ Init
    /\ Len(file.employees) <= MaxConcurrentRoster

ConcurrentNext ==
    \/ Startup
    \/ \E c \in Callers : Retrieve(c)
    \/ \E c \in Callers : RespondNoMatch(c)
    \/ \E c \in Callers : CallLLM(c)
    \/ \E c \in Callers : LLMReturns(c)
    \/ \E c \in Callers : Return(c)

ConcurrentSpec == ConcurrentInit /\ [][ConcurrentNext]_vars

\* The program's own steps are taken when they can be.  Retrieve is the
\* caller's choice to ask.  LLMReturns is the remote service's answer: the
\* request carries no timeout (timeout |-> Absent) and the code arms no timer
\* of its own, so nothing in the program makes the call end.
FairSpec ==
    /\ Spec
    /\ WF_vars(Startup)
    /\ \A c \in OneCaller :
         WF_vars(RespondNoMatch(c)) /\ WF_vars(CallLLM(c)) /\ WF_vars(Return(c))

-----------------------------------------------------------------------------
(* Filter search: GET /employees/search (main.search_employees) *)

\* str.lower() over the strings of the model
Lower(s) ==
    CASE s = "Python" -> "python"
      [] s = "ML" -> "ml"
      [] s = "React" -> "react"
      [] s = "Java" -> "java"
      [] s = "Engineering" -> "engineering"
      [] s = "Sales" -> "sales"
      [] s = "Busy" -> "busy"
      [] s = "AVAILABLE" -> "available"
      [] OTHER -> s

\* str.strip() over the strings of the model
Strip(s) ==
    CASE s = " ML" -> "ML"
      [] s = " react " -> "react"
      [] OTHER -> s

\* An optional query parameter: None (the parameter is omitted), or a value.
\* The skills string is held as what skills.split(",") gives: "" is <<"">>.
None(default) == [ given |-> FALSE, value |-> default ]
Some(v) == [ given |-> TRUE, value |-> v ]

\* truthiness of a parameter: "if skills:", "if availability:", "if department:"
TruthyStr(p) == p.given /\ p.value # ""
TruthySkills(p) == p.given /\ p.value # <<"">>
\* "if min_experience:"
TruthyInt(p) == p.given /\ p.value # 0

InList(x, xs) == \E k \in 1..Len(xs) : xs[k] = x
\* [s.lower() for s in xs]
LowerAll(xs) == [ k \in 1..Len(xs) |-> Lower(xs[k]) ]
\* [s.strip().lower() for s in skills.split(",")]
StripLowerAll(xs) == [ k \in 1..Len(xs) |-> Lower(Strip(xs[k])) ]

\* [emp for emp in filtered if any(skill.lower() in [s.lower() for s in emp["skills"]] ...)]
HasAnySkill(emp, skill_list) ==
    \E k \in 1..Len(skill_list) : InList(Lower(skill_list[k]), LowerAll(emp.skills))

\* emp.get("department", "").lower(): a department that is null has no lower()
DepartmentRaises(emp) == Get(emp.department, "") = Null

\* The handler: the four filters one after the other, each over what the
\* previous ones left.  The outcome is the JSON body, or the AttributeError of
\* None.lower().
search_employees(emps, f) ==
    LET bySkills == IF TruthySkills(f.skills)
                    THEN SelectSeq(emps, LAMBDA e : HasAnySkill(e, StripLowerAll(f.skills.value)))
                    ELSE emps
        byExperience == IF TruthyInt(f.min_experience)
                        THEN SelectSeq(bySkills, LAMBDA e : e.experience_years >= f.min_experience.value)
                        ELSE bySkills
        byAvailability == IF TruthyStr(f.availability)
                          THEN SelectSeq(byExperience,
                                   LAMBDA e : Lower(e.availability) = Lower(f.availability.value))
                          ELSE byExperience
        raises == /\ TruthyStr(f.department)
                  /\ \E k \in 1..Len(byAvailability) : DepartmentRaises(byAvailability[k])
        byDepartment == IF TruthyStr(f.department)
                        THEN SelectSeq(byAvailability,
                                 LAMBDA e : ~DepartmentRaises(e)
                                            /\ Lower(Get(e.department, "")) = Lower(f.department.value))
                        ELSE byAvailability
    IN  IF raises
        THEN [ status |-> "AttributeError", employees |-> <<>>, count |-> 0 ]
        ELSE [ status |-> "ok", employees |-> byDepartment, count |-> Len(byDepartment) ]

\* the query parameters a request can carry
SearchFilters ==
    [ skills : { None(<<>>), Some(<<"python">>), Some(<<"React", " ML">>), Some(<<"Java">>) },
      min_experience : { None(0), Some(0), Some(3) },
      availability : { None(""), Some("AVAILABLE"), Some("busy") },
      department : { None(""), Some("engineering"), Some("Sales") } ]

\* the service is up, its roster loaded from a file of search profiles
SearchInit ==
    /\ file \in { [ kind |-> "ok", employees |-> r ] : r \in SearchRosters }
    /\ argsortTies = "index_asc"
    /\ phase = "ready"
    /\ initError = "none"
    /\ employees = file.employees
    /\ employee_embeddings = create_employee_embeddings(file.employees)
    /\ PipelineIdle
    /\ searchRequest = NoSearch
    /\ searchResponse = NoResponse

Search ==
    /\ phase = "ready"
    /\ \E f \in SearchFilters :
         /\ searchRequest' = f
         /\ searchResponse' = search_employees(employees, f)
    /\ UNCHANGED << storeVars, pipelineVars >>

SearchNext == Search

SearchSpec == SearchInit /\ [][SearchNext]_vars

-----------------------------------------------------------------------------
(* Properties *)

InFlight(c) == pc[c] \in { "retrieved", "calling", "done" }

\* position of a roster entry in the roster (identifiers are unique)
RosterIndex(e) == CHOOSE k \in 1..Len(employees) : employees[k] = e

\* similarity of a roster entry to a query, computed from the record itself
SimilarityOf(q, e) == Cosine(Encode(q), Encode(create_employee_text(e)))

\* C1: whenever the generative call of a query has failed (connection, quota,
\* timeout, malformed response), process_query has returned normally and the
\* narrative of its result is the deterministic fallback narrative for the
\* query and its ranked candidates, produced by one call of the fallback.
C1_FailureFallsBack ==
    \A c \in Callers :
        llmOutcome[c] \in LLMFailures =>
            /\ pc[c] = "done"
            /\ relevant[c] # <<>>
            /\ result[c].response = generate_fallback_response(query[c], relevant[c])
            /\ result[c].response # GeneratedText
            /\ fallbackCalls[c] = 1

\* C1 witness: a malformed response (IndexError) has been answered with the
\* fallback narrative.
C1_Witness ==
    \E c \in Callers :
        /\ llmOutcome[c] = "IndexError"
        /\ pc[c] = "done"
        /\ Len(relevant[c]) >= 2

\* C2: with an empty roster every finished query has an empty employee list,
\* confidence 0.0 and the fixed no-match text, and computed no similarity.
C2_EmptyRoster ==
    \A c \in Callers :
        (phase = "ready" /\ employees = <<>> /\ pc[c] = "done") =>
            /\ result[c] = [ response |-> NoMatchText, relevant_employees |-> <<>>,
                             confidence_score |-> 0 ]
            /\ simCalls[c] = 0
            /\ llmCalls[c] = 0

\* C2 witness: a query has finished against an empty roster.
C2_Witness ==
    \E c \in Callers :
        phase = "ready" /\ employees = <<>> /\ pc[c] = "done" /\ query[c] \in Queries

\* C3: the ranked candidates are in descending order of similarity, and of
\* two candidates with equal similarity the one with the lower roster index
\* comes first.
C3_RankedOrder ==
    \A c \in Callers :
        InFlight(c) =>
            \A i, j \in 1..Len(relevant[c]) :
                i < j =>
                    \/ relevant[c][i][2] > relevant[c][j][2]
                    \/ /\ relevant[c][i][2] = relevant[c][j][2]
                       /\ RosterIndex(relevant[c][i][1]) < RosterIndex(relevant[c][j][1])

\* C4: no ranked candidate has a similarity at or below min_score (0.1): the
\* score it carries is the similarity of its record to the query and is
\* strictly above 0.1.
C4_HardFloor ==
    \A c \in Callers :
        InFlight(c) =>
            \A i \in 1..Len(relevant[c]) :
                /\ relevant[c][i][2] = SimilarityOf(query[c], relevant[c][i][1])
                /\ relevant[c][i][2] > MinScore

\* C4 witness: a roster entry scores exactly 0.1 against the query, it is not
\* among the candidates, and fewer than top_k candidates are returned.
C4_Witness ==
    \E c \in Callers :
        /\ pc[c] = "retrieved"
        /\ \E k \in 1..Len(employees) :
              /\ SimilarityOf(query[c], employees[k]) = MinScore
              /\ \A i \in 1..Len(relevant[c]) : relevant[c][i][1] # employees[k]
        /\ relevant[c] # <<>>
        /\ Len(relevant[c]) < TopK

\* C5: the result of a finished query lists the records of the ranked
\* candidates, best first and without scores, and its confidence is the
\* similarity of the first candidate, 0.0 when there is none.
C5_ResultAssembly ==
    \A c \in Callers :
        pc[c] = "done" =>
            /\ Len(result[c].relevant_employees) = Len(relevant[c])
            /\ \A i \in 1..Len(relevant[c]) :
                  result[c].relevant_employees[i] = relevant[c][i][1]
            /\ result[c].confidence_score =
                  IF relevant[c] = <<>> THEN 0 ELSE relevant[c][1][2]

\* C5 witness: a finished query with two candidates of different similarity.
C5_Witness ==
    \E c \in Callers :
        /\ pc[c] = "done"
        /\ Len(relevant[c]) >= 2
        /\ relevant[c][1][2] # relevant[c][Len(relevant[c])][2]

\* C6: when the employee source is missing or malformed, initialization ends
\* with an empty roster and does not fail on the data.
C6_BadSourceGivesEmptyRoster ==
    (file.kind \in { "absent", "unparseable", "no_employees_key" } /\ phase # "start") =>
        /\ initError \notin { "JSONDecodeError", "KeyError" }
        /\ employees = <<>>

\* C7: every call of process_query eventually returns a result.
C7_EveryQueryReturns ==
    \A c \in Callers : (pc[c] = "retrieved") ~> (pc[c] = "done")

\* what the filter search is to return for a request: the roster entries that
\* satisfy every supplied filter, in roster order
MatchesFilters(e, f) ==
    /\ TruthySkills(f.skills) =>
          \E a \in 1..Len(f.skills.value), b \in 1..Len(e.skills) :
              Lower(Strip(f.skills.value[a])) = Lower(e.skills[b])
    /\ f.min_experience.given => e.experience_years >= f.min_experience.value
    /\ TruthyStr(f.availability) => Lower(e.availability) = Lower(f.availability.value)
    /\ TruthyStr(f.department) =>
          /\ e.department \notin { Absent, Null }
          /\ Lower(e.department) = Lower(f.department.value)

\* C8: every filter search completes and returns exactly the roster entries
\* that satisfy all supplied filters, in roster order, with their count.
C8_SearchReturnsMatches ==
    searchResponse # NoResponse =>
        /\ searchResponse.status = "ok"
        /\ searchResponse.employees = SelectSeq(employees, LAMBDA e : MatchesFilters(e, searchRequest))
        /\ searchResponse.count = Len(searchResponse.employees)

\* the ranked candidates of a query run alone right after initialization
AloneRanked(q) ==
    retrieve_relevant_employees(file.employees, create_employee_embeddings(file.employees),
                                q, argsortTies)

\* C9: once initialized, no step changes the roster or the matrix, and every
\* query that finishes, under any interleaving with other queries, has the
\* ranked employees and the confidence of the same query run alone.
C9_QueriesDoNotInterfere ==
    [][ phase = "ready" =>
          /\ employees' = employees
          /\ employee_embeddings' = employee_embeddings
          /\ \A c \in Callers :
                (pc[c] # "done" /\ pc'[c] = "done") =>
                    /\ result'[c].relevant_employees = EmployeesList(AloneRanked(query'[c]))
                    /\ result'[c].confidence_score = Confidence(AloneRanked(query'[c])) ]_vars

\* C9 witness: two calls overlap, on different queries, one finished while the
\* generative call of the other is in flight.
C9_Witness ==
    /\ pc["c1"] = "calling"
    /\ pc["c2"] = "done"
    /\ query["c1"] # query["c2"]
    /\ relevant["c1"] # <<>>
    /\ relevant["c2"] # <<>>

\* C10: after initialization the matrix has one row per roster entry, row i
\* being the embedding of entry i; with an empty roster the matrix is empty
\* and every ranking is empty.
C10_MatrixMatchesRoster ==
    phase = "ready" =>
        /\ Len(employee_embeddings) = Len(employees)
        /\ \A i \in 1..Len(employees) :
              employee_embeddings[i] = Encode(create_employee_text(employees[i]))
        /\ employees = <<>> =>
              /\ employee_embeddings = <<>>
              /\ \A c \in Callers : InFlight(c) => relevant[c] = <<>>

\* C10 witness: a ready system whose roster has entries with different rows.
C10_Witness ==
    /\ phase = "ready"
    /\ Len(employees) >= 2
    /\ employee_embeddings[1] # employee_embeddings[Len(employees)]
    /\ \E c \in Callers : pc[c] = "retrieved"

\* C11: within one process_query call the generative model is called at most
\* once; once a call has failed the fallback narrative is the result, no
\* request is in flight and no second call has been made.
C11_AtMostOneGenerativeCall ==
    \A c \in Callers :
        /\ llmCalls[c] <= 1
        /\ pc[c] = "calling" => llmCalls[c] = 1 /\ llmOutcome[c] = "none"
        /\ llmOutcome[c] \in LLMFailures =>
              /\ llmCalls[c] = 1
              /\ pc[c] = "done"
              /\ llmRequest[c] = NoRequest
              /\ fallbackCalls[c] = 1

\* C11 witness: a query whose one generative call timed out has its result.
C11_Witness ==
    \E c \in Callers :
        /\ llmOutcome[c] = "APITimeoutError"
        /\ pc[c] = "done"
        /\ llmCalls[c] = 1

\* C12: a query whose ranked list is empty ends with the fixed no-match text
\* and has invoked neither the generative model nor the fallback template.
C12_EmptyRankingGivesNoMatch ==
    \A c \in Callers :
        (InFlight(c) /\ relevant[c] = <<>>) =>
            /\ pc[c] \in { "retrieved", "done" }
            /\ llmCalls[c] = 0
            /\ fallbackCalls[c] = 0
            /\ llmOutcome[c] = "none"
            /\ pc[c] = "done" => result[c].response = NoMatchText

\* C12 witness: a finished query against a non-empty roster none of whose
\* entries scores above the threshold.
C12_Witness ==
    \E c \in Callers :
        /\ pc[c] = "done"
        /\ employees # <<>>
        /\ relevant[c] = <<>>
        /\ simCalls[c] = 1

\* what the fallback narrative is to say of candidate number n: its number and
\* name, its experience, skills, projects and availability, and its similarity
\* times 100 to one decimal place
ExpectedEntry(n, candidate) ==
    LET e == candidate[1]
        permille == candidate[2]
    IN  "**" \o ToString(n) \o ". " \o e.name \o "** (" \o ToString(e.experience_years)
             \o " years experience)\n"
        \o "   - Skills: " \o Join(", ", e.skills) \o "\n"
        \o "   - Recent Projects: " \o Join(", ", e.projects) \o "\n"
        \o "   - Availability: " \o e.availability \o "\n"
        \o "   - Match Score: " \o ToString(permille \div 10) \o "." \o ToString(permille % 10)
             \o "%\n\n"

RECURSIVE ExpectedEntries(_, _)
\* entries 1..n of the ranked list, in ranked order
ExpectedEntries(rel, n) ==
    IF n = 0 THEN "" ELSE ExpectedEntries(rel, n - 1) \o ExpectedEntry(n, rel[n])

\* C13: for a non-empty ranked list of N candidates the fallback does not
\* raise and its narrative is non-empty, opens by stating the query and N,
\* then lists exactly the N candidates numbered 1..N in ranked order, each with
\* name, experience, skills, projects, availability and match percentage to
\* one decimal, and ends with the fixed follow-up prompt.
C13_FallbackNarrative ==
    \A c \in Callers :
        (fallbackCalls[c] > 0 /\ relevant[c] # <<>>) =>
            LET text == result[c].response
                opening == "Based on your query '" \o query[c] \o "', I found "
                           \o ToString(Len(relevant[c])) \o " relevant candidate(s):\n\n"
                listing == ExpectedEntries(relevant[c], Len(relevant[c]))
            IN  /\ pc[c] = "done"
                /\ text # ""
                /\ Len(text) = Len(opening) + Len(listing) + Len(FollowUpText)
                /\ SubSeq(text, 1, Len(opening)) = opening
                /\ SubSeq(text, Len(opening) + 1, Len(opening) + Len(listing)) = listing
                /\ SubSeq(text, Len(text) - Len(FollowUpText) + 1, Len(text)) = FollowUpText

\* C13 witness: a fallback narrative of five candidates has been returned.
C13_Witness ==
    \E c \in Callers :
        /\ pc[c] = "done"
        /\ fallbackCalls[c] = 1
        /\ Len(relevant[c]) = TopK
        /\ relevant[c][1][1].name # relevant[c][TopK][1].name

\* the roster positions whose similarity to the query is above the threshold
AboveThreshold(q) ==
    { k \in 1..Len(employees) : SimilarityOf(q, employees[k]) > MinScore }

\* the roster positions of the ranked candidates of caller c
ReturnedPositions(c) ==
    { k \in 1..Len(employees) : \E i \in 1..Len(relevant[c]) : relevant[c][i][1] = employees[k] }

\* C14: the ranker returns at most min(top_k, roster length) candidates, all
\* distinct roster entries; no roster entry left out has a strictly higher
\* similarity than a returned one; and the cut to top_k comes before the
\* threshold, so the candidates are the top_k entries that are above it.
C14_TopKThenThreshold ==
    \A c \in Callers :
        InFlight(c) =>
            /\ Len(relevant[c]) <= TopK
            /\ Len(relevant[c]) <= Len(employees)
            /\ \A i \in 1..Len(relevant[c]) :
                  \E k \in 1..Len(employees) : employees[k] = relevant[c][i][1]
            /\ \A i, j \in 1..Len(relevant[c]) :
                  i # j => relevant[c][i][1] # relevant[c][j][1]
            /\ \A k \in (1..Len(employees)) \ ReturnedPositions(c) :
                  \A i \in 1..Len(relevant[c]) :
                      SimilarityOf(query[c], employees[k]) <= relevant[c][i][2]
            /\ Len(relevant[c]) =
                  IF Cardinality(AboveThreshold(query[c])) < TopK
                  THEN Cardinality(AboveThreshold(query[c])) ELSE TopK

\* C14 witness: a roster longer than top_k, all of whose entries are above the
\* threshold but not all equally similar, of which top_k are returned.
C14_Witness ==
    \E c \in Callers :
        /\ pc[c] = "retrieved"
        /\ Len(employees) > TopK
        /\ Len(relevant[c]) = TopK
        /\ Cardinality(AboveThreshold(query[c])) > TopK
        /\ relevant[c][1][2] # relevant[c][TopK][2]

\* C15: the confidence of a result is 0.0 exactly when it lists no employee;
\* otherwise it is above 0.1 and at least the similarity of every listed
\* employee.
C15_ConfidenceBounds ==
    \A c \in Callers :
        pc[c] = "done" =>
            /\ result[c].confidence_score = 0 <=> result[c].relevant_employees = <<>>
            /\ result[c].relevant_employees # <<>> =>
                  /\ result[c].confidence_score > MinScore
                  /\ \A i \in 1..Len(result[c].relevant_employees) :
                        result[c].confidence_score >=
                            SimilarityOf(query[c], result[c].relevant_employees[i])

\* C15 witness: a result whose confidence is strictly above the similarity of
\* one of its employees.
C15_Witness ==
    \E c \in Callers :
        /\ pc[c] = "done"
        /\ \E i \in 1..Len(result[c].relevant_employees) :
              result[c].confidence_score > SimilarityOf(query[c], result[c].relevant_employees[i])

====
